---- MODULE Spec2Model ----
(***************************************************************************)
(* Model of the romio crypto helpers:                                      *)
(*   src/src/crypto/ed25519_helper.py  (verify_ed25519, batch_verify)      *)
(*   src/src/crypto/vrf_helper.py      (compute_ticket_id,                 *)
(*        verify_ring_signature, and the ticket_id / batch_ticket_ids /    *)
(*        batch_verify commands)                                           *)
(*                                                                         *)
(* Python strings are sequences of one-character strings, bytes objects    *)
(* are sequences of 0..255.  A call either returns or raises; the outcome  *)
(* of an entry point is a record                                           *)
(*     [raised, exc, ret, log]                                             *)
(* where ret is <<>> when the call raised and <<value>> otherwise, and log *)
(* is the sequence of calls made to the external primitives (PyNaCl,       *)
(* jam_vrf).  The primitives themselves are an oracle chosen in Init.      *)
(***************************************************************************)
EXTENDS Integers, Sequences, FiniteSets, TLC

VARIABLES pc, cmd, args, out, oracle

vars == <<pc, cmd, args, out, oracle>>

-----------------------------------------------------------------------------
(* Bounds *)

MaxBatch == 2

-----------------------------------------------------------------------------
(* Program constants *)

KeyLen == 32
SigLen == 64
VrfOutLen == 32
IdLen == 32
ByteRange == 256

-----------------------------------------------------------------------------
(* Strings, bytes and hex *)

Fill(n, b) == [i \in 1..n |-> b]

Min(a, b) == IF a < b THEN a ELSE b

HexDigits == <<"0","1","2","3","4","5","6","7","8","9","a","b","c","d","e","f">>

UpperDigits == <<"0","1","2","3","4","5","6","7","8","9","A","B","C","D","E","F">>

HexChars == {HexDigits[i] : i \in 1..16} \cup {UpperDigits[i] : i \in 1..16}

HexTable ==
    [c \in HexChars |-> (CHOOSE i \in 1..16 : HexDigits[i] = c \/ UpperDigits[i] = c) - 1]

IsHexDigit(c) == c \in HexChars

HexVal(c) == HexTable[c]

\* s.startswith("0x")
StartsWith0x(s) == Len(s) >= 2 /\ s[1] = "0" /\ s[2] = "x"

\* mutant: the marker is never removed
KeepPrefix(s) == s

\* if s.startswith("0x"): s = s[2:]
StripPrefix(s) == IF StartsWith0x(s) THEN SubSeq(s, 3, Len(s)) ELSE s

\* bytes.fromhex(s): ValueError on an odd number of digits or a non-hex digit
FromHex(s) ==
    IF Len(s) % 2 = 0 /\ \A i \in 1..Len(s) : IsHexDigit(s[i])
    THEN [ok |-> TRUE,
          bytes |-> [i \in 1..(Len(s) \div 2) |->
                        16 * HexVal(s[2*i - 1]) + HexVal(s[2*i])]]
    ELSE [ok |-> FALSE, bytes |-> <<>>]

\* bytes.hex()
ToHex(b) ==
    [i \in 1..(2 * Len(b)) |->
        IF i % 2 = 1 THEN HexDigits[(b[(i + 1) \div 2] \div 16) + 1]
                     ELSE HexDigits[(b[i \div 2] % 16) + 1]]

\* b[:n]
Slice(b, n) == SubSeq(b, 1, Min(n, Len(b)))

-----------------------------------------------------------------------------
(* Outcomes and the call log *)

Ev(op, a, b, c, n, ok) == [op |-> op, a |-> a, b |-> b, c |-> c, n |-> n, ok |-> ok]

Returned(v, log) == [raised |-> FALSE, exc |-> "", ret |-> <<v>>, log |-> log]

Raised(e, log) == [raised |-> TRUE, exc |-> e, ret |-> <<>>, log |-> log]

NoOut == [raised |-> FALSE, exc |-> "", ret |-> <<>>, log |-> <<>>]

\* {"ok": v} / {"error": str(e)}
Ok(v) == [tag |-> "ok", val |-> v]

Err(reason) == [tag |-> "error", val |-> reason]

-----------------------------------------------------------------------------
(* Input families: well-formed values and their malformed spellings *)

Prefix0x == <<"0", "x">>

WithPrefix(h) == Prefix0x \o h

DropLast(h) == SubSeq(h, 1, Len(h) - 1)

NonHex(h) == <<"g">> \o Tail(h)

PkA == Fill(KeyLen, 17)
MsgA == <<1, 2>>
MsgB == <<1, 3>>
SigA == Fill(SigLen, 34)

EdPkStrs ==
    {ToHex(PkA), WithPrefix(ToHex(PkA)), DropLast(ToHex(PkA)),
     NonHex(ToHex(PkA)), ToHex(Fill(KeyLen - 1, 17))}

EdMsgStrs == {ToHex(MsgA), WithPrefix(ToHex(MsgA)), ToHex(MsgB), DropLast(ToHex(MsgA))}

EdSigStrs ==
    {ToHex(SigA), WithPrefix(ToHex(SigA)), NonHex(ToHex(SigA)),
     ToHex(Fill(SigLen - 1, 34))}

EdItem(p, m, s) == [public_key |-> p, message |-> m, signature |-> s]

EdItems ==
    {EdItem(ToHex(PkA), ToHex(MsgA), ToHex(SigA)),
     EdItem(WithPrefix(ToHex(PkA)), WithPrefix(ToHex(MsgA)), WithPrefix(ToHex(SigA))),
     EdItem(DropLast(ToHex(PkA)), ToHex(MsgA), ToHex(SigA)),
     EdItem(ToHex(PkA), ToHex(MsgA), NonHex(ToHex(SigA))),
     EdItem(ToHex(PkA), ToHex(MsgB), ToHex(SigA))}

SeqsUpTo(S, n) == UNION {[1..k -> S] : k \in 0..n}

-----------------------------------------------------------------------------
(* ed25519_helper.py *)

\* nacl VerifyKey(public_key): the key must be exactly 32 bytes
NaclVerifyKey(pk) == IF Len(pk) = KeyLen THEN "" ELSE "ValueError"

\* nacl verify_key.verify(message, signature)
NaclVerify(o, pk, msg, sig) ==
    IF Len(sig) # SigLen THEN "ValueError"
    ELSE IF <<pk, msg, sig>> \in o.ed THEN ""
    ELSE "BadSignatureError"

\* the statements of the try block, up to the first one that raises
EdTryBody(o, pk_hex, msg_hex, sig_hex) ==
    LET pk  == FromHex(pk_hex)
        msg == FromHex(msg_hex)
        sig == FromHex(sig_hex)
    IN  IF ~pk.ok \/ ~msg.ok \/ ~sig.ok THEN [exc |-> "ValueError", log |-> <<>>]
        ELSE LET k  == NaclVerifyKey(pk.bytes)
                 e1 == Ev("VerifyKey", pk.bytes, <<>>, <<>>, 0, k = "")
             IN  IF k # "" THEN [exc |-> k, log |-> <<e1>>]
                 ELSE LET v == NaclVerify(o, pk.bytes, msg.bytes, sig.bytes)
                      IN  [exc |-> v,
                           log |-> <<e1, Ev("ed_verify", pk.bytes, msg.bytes,
                                            sig.bytes, 0, v = "")>>]

\* mutant: only BadSignatureError is handled, other exceptions propagate
verify_ed25519_OnlyBadSig(o, public_key_hex, message_hex, signature_hex) ==
    LET r == EdTryBody(o, StripPrefix(public_key_hex), StripPrefix(message_hex),
                       StripPrefix(signature_hex))
    IN  IF r.exc = "" THEN Returned(TRUE, r.log)
        ELSE IF r.exc = "BadSignatureError" THEN Returned(FALSE, r.log)
        ELSE Raised(r.exc, r.log)

verify_ed25519(o, public_key_hex, message_hex, signature_hex) ==
    LET r == EdTryBody(o, StripPrefix(public_key_hex), StripPrefix(message_hex),
                       StripPrefix(signature_hex))
    IN  IF r.exc = "" THEN Returned(TRUE, r.log)
        ELSE IF r.exc = "BadSignatureError" THEN Returned(FALSE, r.log)
        ELSE Returned(FALSE, r.log)   \* except Exception: print to stderr

RECURSIVE EdLoop(_, _, _, _, _)
\* for v in verifications: results.append(verify_ed25519(...))
EdLoop(o, verifications, i, results, log) ==
    IF i > Len(verifications) THEN Returned(results, log)
    ELSE LET v == verifications[i]
             r == verify_ed25519(o, v.public_key, v.message, v.signature)
         IN  IF r.raised THEN Raised(r.exc, log \o r.log)
             ELSE EdLoop(o, verifications, i + 1, Append(results, r.ret[1]), log \o r.log)

ed_batch_verify(o, verifications) == EdLoop(o, verifications, 1, <<>>, <<>>)

-----------------------------------------------------------------------------
(* vrf_helper.py: inputs *)

\* b"jam_ticket_seal"
Tag == <<106, 97, 109, 95, 116, 105, 99, 107, 101, 116, 95, 115, 101, 97, 108>>

CommitA == <<170, 187>>
CommitB == <<0>>
RingSizes == {6}
EntropyA == Fill(32, 17)

\* ring signatures: the first VrfOutLen bytes are the VRF output point
RSigA     == Fill(VrfOutLen, 1) \o <<7, 8>>
RSigATail == Fill(VrfOutLen, 1) \o <<9, 9>>
RSigA32   == Fill(VrfOutLen - 1, 1) \o <<5, 7, 8>>
RSigB     == Fill(VrfOutLen, 2) \o <<7, 8>>
RSigShort == Fill(VrfOutLen - 1, 1)

CommitStrs == {ToHex(CommitA), WithPrefix(ToHex(CommitA)), ToHex(CommitB),
               DropLast(ToHex(CommitA))}

EntropyStrs == {ToHex(EntropyA), WithPrefix(ToHex(EntropyA)), NonHex(ToHex(EntropyA))}

RSigStrs ==
    {ToHex(RSigA), WithPrefix(ToHex(RSigA)), ToHex(RSigATail), ToHex(RSigA32),
     ToHex(RSigB), ToHex(RSigShort), DropLast(ToHex(RSigA)), NonHex(ToHex(RSigA))}

Attempts == {0, 1, ByteRange}

\* (commitment, entropy) spellings given to the batch command
BatchHeads ==
    {<<ToHex(CommitA), ToHex(EntropyA)>>,
     <<WithPrefix(ToHex(CommitA)), ToHex(EntropyA)>>,
     <<ToHex(CommitA), WithPrefix(ToHex(EntropyA))>>,
     <<ToHex(CommitB), ToHex(EntropyA)>>,
     <<DropLast(ToHex(CommitA)), ToHex(EntropyA)>>,
     <<ToHex(CommitA), NonHex(ToHex(EntropyA))>>}

\* signatures given to the batch_ticket_ids command
BatchSigStrs ==
    {ToHex(RSigA), WithPrefix(ToHex(RSigA)), ToHex(RSigATail), ToHex(RSigA32),
     DropLast(ToHex(RSigA))}

Ticket(a, s) == [attempt |-> a, signature |-> s]

Tickets ==
    {Ticket(0, ToHex(RSigA)), Ticket(0, WithPrefix(ToHex(RSigA))),
     Ticket(1, ToHex(RSigB)), Ticket(0, ToHex(RSigB)),
     Ticket(0, DropLast(ToHex(RSigA))), Ticket(ByteRange, ToHex(RSigA))}

\* what a signer signs for (entropy, attempt): the protocol's seal input
SealInput(entropy, attempt) == Tag \o entropy \o <<attempt>>

-----------------------------------------------------------------------------
(* jam_vrf primitives, decided by the oracle *)

\* jam_vrf.RingVerifier(commitment, ring_size)
RingVerifierNew(o, commitment, ring_size) ==
    IF <<commitment, ring_size>> \in o.rings THEN "" ELSE "RingError"

\* the object RingVerifier(commitment, ring_size) returns; id counts constructions
Verifier(id, commitment, ring_size) ==
    [id |-> id, commitment |-> commitment, ring_size |-> ring_size]

\* verifier.verify([(data, aux, signature)])
RingVerify(o, verifier, data, aux, signature) ==
    IF <<verifier.commitment, verifier.ring_size, data, aux, signature>> \in o.accept
    THEN "" ELSE "VerifyError"

\* jam_vrf.VRFOutput(bytes)
VRFOutputNew(o, b) == IF Len(b) = VrfOutLen /\ b \in o.points THEN "" ELSE "PointError"

\* vrf_output.hash()
VRFOutputHash(b) == [i \in 1..(2 * VrfOutLen) |-> (b[((i - 1) % Len(b)) + 1] + i) % ByteRange]

-----------------------------------------------------------------------------
(* vrf_helper.py *)

\* mutant: the whole hash is returned
TruncateIdWhole(ticket_id_full) == ToHex(ticket_id_full)

\* ticket_id_full[:32].hex()
TruncateId(ticket_id_full) == ToHex(Slice(ticket_id_full, IdLen))

\* sig_bytes[:32]
VrfOutputBytes(sig_bytes) == Slice(sig_bytes, VrfOutLen)

\* compute_ticket_id: [exc, val, log]; exc = "" when it returns val
compute_ticket_id(o, signature_hex) ==
    LET sig == FromHex(StripPrefix(signature_hex))
    IN  IF ~sig.ok THEN [exc |-> "ValueError", val |-> <<>>, log |-> <<>>]
        ELSE LET vrf_output_bytes == VrfOutputBytes(sig.bytes)
                 p  == VRFOutputNew(o, vrf_output_bytes)
                 e1 == Ev("VRFOutput", vrf_output_bytes, <<>>, <<>>, 0, p = "")
             IN  IF p # "" THEN [exc |-> p, val |-> <<>>, log |-> <<e1>>]
                 ELSE [exc |-> "",
                       val |-> TruncateId(VRFOutputHash(vrf_output_bytes)),
                       log |-> <<e1>>]

\* bytes([attempt]): ValueError unless 0 <= attempt < 256
AttemptByte(attempt) ==
    IF attempt >= 0 /\ attempt < ByteRange
    THEN [ok |-> TRUE, bytes |-> <<attempt>>]
    ELSE [ok |-> FALSE, bytes |-> <<>>]

\* mutant: the attempt is written before the entropy
TranscriptSwapped(entropy, attempt_byte) == Tag \o attempt_byte \o entropy

\* verify_ring_signature: b"jam_ticket_seal" + entropy + bytes([attempt])
SingleTranscript(entropy, attempt_byte) == Tag \o entropy \o attempt_byte

\* batch_verify: b"jam_ticket_seal" + entropy + bytes([attempt])
BatchTranscript(entropy, attempt_byte) == Tag \o entropy \o attempt_byte

\* the try block of verify_ring_signature
RingTryBody(o, commitment, ring_size, data, signature, signature_hex) ==
    LET n  == RingVerifierNew(o, commitment, ring_size)
        e1 == Ev("new", commitment, <<>>, <<>>, ring_size, n = "")
    IN  IF n # "" THEN [exc |-> n, val |-> <<>>, log |-> <<e1>>]
        ELSE LET verifier == Verifier(1, commitment, ring_size)
                 v  == RingVerify(o, verifier, data, <<>>, signature)
                 e2 == Ev("verify", data, <<>>, signature, verifier.id, v = "")
             IN  IF v # "" THEN [exc |-> v, val |-> <<>>, log |-> <<e1, e2>>]
                 ELSE LET t == compute_ticket_id(o, signature_hex)
                      IN  [exc |-> t.exc, val |-> t.val, log |-> <<e1, e2>> \o t.log]

\* return (is_valid, result)
VerifyResult(valid, result) == [valid |-> valid, result |-> result]

verify_ring_signature(o, commitment_hex, ring_size, entropy_hex, attempt, signature_hex) ==
    LET sh == StripPrefix(signature_hex)
        c  == FromHex(StripPrefix(commitment_hex))
        e  == FromHex(StripPrefix(entropy_hex))
        s  == FromHex(sh)
        a  == AttemptByte(attempt)
    IN  IF ~c.ok \/ ~e.ok \/ ~s.ok THEN Raised("ValueError", <<>>)
        ELSE IF ~a.ok THEN Raised("ValueError", <<>>)
        ELSE LET r == RingTryBody(o, c.bytes, ring_size,
                                  SingleTranscript(e.bytes, a.bytes), s.bytes, sh)
             IN  IF r.exc = "" THEN Returned(VerifyResult(TRUE, r.val), r.log)
                 ELSE Returned(VerifyResult(FALSE, <<r.exc>>), r.log)

\* the ticket_id command: print(compute_ticket_id(sys.argv[2]))
cmd_ticket_id(o, signature_hex) ==
    LET t == compute_ticket_id(o, signature_hex)
    IN  IF t.exc = "" THEN Returned(t.val, t.log) ELSE Raised(t.exc, t.log)

RECURSIVE TicketIdsLoop(_, _, _, _, _)
\* the batch_ticket_ids command
TicketIdsLoop(o, signatures, i, results, log) ==
    IF i > Len(signatures) THEN Returned(results, log)
    ELSE LET t == compute_ticket_id(o, signatures[i])
         IN  TicketIdsLoop(o, signatures, i + 1,
                 Append(results, IF t.exc = "" THEN Ok(t.val) ELSE Err(<<t.exc>>)),
                 log \o t.log)

cmd_batch_ticket_ids(o, signatures) == TicketIdsLoop(o, signatures, 1, <<>>, <<>>)

\* mutant: a single error entry is reported for the whole batch
CommitmentFailureOnce(tickets, e) == <<Err(<<"Invalid commitment: ", e>>)>>

\* results = [{"error": f"Invalid commitment: {e}"} for _ in tickets]
CommitmentFailure(tickets, e) ==
    [i \in 1..Len(tickets) |-> Err(<<"Invalid commitment: ", e>>)]

\* mutant: a fresh verifier is built for every ticket
BatchTicketFresh(o, verifier, entropy, t) ==
    LET sig_hex == StripPrefix(t.signature)
        s == FromHex(sig_hex)
        a == AttemptByte(t.attempt)
    IN  IF ~s.ok \/ ~a.ok
        THEN [raised |-> TRUE, exc |-> "ValueError", entry |-> Err(<<>>), log |-> <<>>]
        ELSE LET fresh == Verifier(verifier.id + 1, verifier.commitment, verifier.ring_size)
                 e0 == Ev("new", fresh.commitment, <<>>, <<>>, fresh.ring_size, TRUE)
                 vrf_data == BatchTranscript(entropy, a.bytes)
                 v  == RingVerify(o, fresh, vrf_data, <<>>, s.bytes)
                 e1 == Ev("verify", vrf_data, <<>>, s.bytes, fresh.id, v = "")
             IN  IF v # ""
                 THEN [raised |-> FALSE, exc |-> "", entry |-> Err(<<v>>), log |-> <<e0, e1>>]
                 ELSE LET id == compute_ticket_id(o, sig_hex)
                      IN  [raised |-> FALSE, exc |-> "",
                           entry |-> IF id.exc = "" THEN Ok(id.val) ELSE Err(<<id.exc>>),
                           log |-> <<e0, e1>> \o id.log]

\* the body of `for t in tickets` in the batch_verify command
BatchTicket(o, verifier, entropy, t) ==
    LET sig_hex == StripPrefix(t.signature)
        s == FromHex(sig_hex)
        a == AttemptByte(t.attempt)
    IN  IF ~s.ok \/ ~a.ok
        THEN [raised |-> TRUE, exc |-> "ValueError", entry |-> Err(<<>>), log |-> <<>>]
        ELSE LET vrf_data == BatchTranscript(entropy, a.bytes)
                 v  == RingVerify(o, verifier, vrf_data, <<>>, s.bytes)
                 e1 == Ev("verify", vrf_data, <<>>, s.bytes, verifier.id, v = "")
             IN  IF v # ""
                 THEN [raised |-> FALSE, exc |-> "", entry |-> Err(<<v>>), log |-> <<e1>>]
                 ELSE LET id == compute_ticket_id(o, sig_hex)
                      IN  [raised |-> FALSE, exc |-> "",
                           entry |-> IF id.exc = "" THEN Ok(id.val) ELSE Err(<<id.exc>>),
                           log |-> <<e1>> \o id.log]

RECURSIVE BatchLoop(_, _, _, _, _, _, _)
\* for t in tickets: ...; an exception outside the try ends the process
BatchLoop(o, verifier, entropy, tickets, i, results, log) ==
    IF i > Len(tickets) THEN Returned(results, log)
    ELSE LET r == BatchTicket(o, verifier, entropy, tickets[i])
         IN  IF r.raised THEN Raised(r.exc, log \o r.log)
             ELSE BatchLoop(o, verifier, entropy, tickets, i + 1,
                            Append(results, r.entry), log \o r.log)

\* the batch_verify command
cmd_batch_verify(o, commitment_hex, ring_size, entropy_hex, tickets) ==
    LET c == FromHex(StripPrefix(commitment_hex))
        e == FromHex(StripPrefix(entropy_hex))
    IN  IF ~c.ok \/ ~e.ok THEN Raised("ValueError", <<>>)
        ELSE LET n  == RingVerifierNew(o, c.bytes, ring_size)
                 e1 == Ev("new", c.bytes, <<>>, <<>>, ring_size, n = "")
             IN  IF n # "" THEN Returned(CommitmentFailure(tickets, n), <<e1>>)
                 ELSE BatchLoop(o, Verifier(1, c.bytes, ring_size), e.bytes, tickets,
                                1, <<>>, <<e1>>)

-----------------------------------------------------------------------------
(* The state machine: one invocation at a time *)

NoArgs ==
    [public_key |-> <<>>, message |-> <<>>, signature |-> <<>>, commitment |-> <<>>,
     ring_size |-> 0, entropy |-> <<>>, attempt |-> 0, items |-> <<>>]

EdGood == <<PkA, MsgA, SigA>>
RingGood == <<CommitA, 6>>
AcceptA0 == <<CommitA, 6, SealInput(EntropyA, 0), <<>>, RSigA>>
AcceptB1 == <<CommitA, 6, SealInput(EntropyA, 1), <<>>, RSigB>>
PointsGood == {Slice(RSigA, VrfOutLen), Slice(RSigB, VrfOutLen), Slice(RSigA32, VrfOutLen)}

Oracle(ed, rings, accept, points) ==
    [ed |-> ed, rings |-> rings, accept |-> accept, points |-> points]

\* the primitives' answers: nothing verifies; everything genuine verifies; only
\* the attempt-0 ticket verifies; the commitment is rejected; no point decodes
Oracles ==
    {Oracle({}, {}, {}, {}),
     Oracle({EdGood}, {RingGood}, {AcceptA0, AcceptB1}, PointsGood),
     Oracle({EdGood}, {RingGood}, {AcceptA0}, PointsGood),
     Oracle({}, {}, {AcceptA0, AcceptB1}, PointsGood),
     Oracle({EdGood}, {RingGood}, {AcceptA0, AcceptB1}, {})}

Init ==
    /\ pc = "idle"
    /\ cmd = ""
    /\ args = NoArgs
    /\ out = NoOut
    /\ oracle \in Oracles

CallVerifyEd25519 ==
    /\ pc = "idle"
    /\ \E p \in EdPkStrs, m \in EdMsgStrs, s \in EdSigStrs :
          /\ args' = [NoArgs EXCEPT !.public_key = p, !.message = m, !.signature = s]
          /\ out' = verify_ed25519(oracle, p, m, s)
    /\ cmd' = "verify_ed25519"
    /\ pc' = "done"
    /\ UNCHANGED oracle

CallEdBatchVerify ==
    /\ pc = "idle"
    /\ \E vs \in SeqsUpTo(EdItems, MaxBatch) :
          /\ args' = [NoArgs EXCEPT !.items = vs]
          /\ out' = ed_batch_verify(oracle, vs)
    /\ cmd' = "ed_batch_verify"
    /\ pc' = "done"
    /\ UNCHANGED oracle

CmdTicketId ==
    /\ pc = "idle"
    /\ \E s \in RSigStrs :
          /\ args' = [NoArgs EXCEPT !.signature = s]
          /\ out' = cmd_ticket_id(oracle, s)
    /\ cmd' = "ticket_id"
    /\ pc' = "done"
    /\ UNCHANGED oracle

CallVerifyRingSignature ==
    /\ pc = "idle"
    /\ \E c \in CommitStrs, n \in RingSizes, e \in EntropyStrs, a \in Attempts,
          s \in RSigStrs :
          /\ args' = [NoArgs EXCEPT !.commitment = c, !.ring_size = n, !.entropy = e,
                                    !.attempt = a, !.signature = s]
          /\ out' = verify_ring_signature(oracle, c, n, e, a, s)
    /\ cmd' = "verify_ring_signature"
    /\ pc' = "done"
    /\ UNCHANGED oracle

CmdBatchTicketIds ==
    /\ pc = "idle"
    /\ \E ss \in SeqsUpTo(BatchSigStrs, MaxBatch) :
          /\ args' = [NoArgs EXCEPT !.items = ss]
          /\ out' = cmd_batch_ticket_ids(oracle, ss)
    /\ cmd' = "batch_ticket_ids"
    /\ pc' = "done"
    /\ UNCHANGED oracle

CmdBatchVerify ==
    /\ pc = "idle"
    /\ \E h \in BatchHeads, n \in RingSizes, ts \in SeqsUpTo(Tickets, MaxBatch) :
          /\ args' = [NoArgs EXCEPT !.commitment = h[1], !.ring_size = n,
                                    !.entropy = h[2], !.items = ts]
          /\ out' = cmd_batch_verify(oracle, h[1], n, h[2], ts)
    /\ cmd' = "batch_verify"
    /\ pc' = "done"
    /\ UNCHANGED oracle

\* the process ends; the next invocation starts from nothing
Exit ==
    /\ pc = "done"
    /\ pc' = "idle"
    /\ cmd' = ""
    /\ args' = NoArgs
    /\ out' = NoOut
    /\ UNCHANGED oracle

Next ==
    \/ CallVerifyEd25519
    \/ CallEdBatchVerify
    \/ CmdTicketId
    \/ CallVerifyRingSignature
    \/ CmdBatchTicketIds
    \/ CmdBatchVerify
    \/ Exit

Spec == Init /\ [][Next]_vars

Done(c) == pc = "done" /\ cmd = c

-----------------------------------------------------------------------------
(* Helpers for the properties *)

Decode(h) == FromHex(StripPrefix(h))

Malformed(h) == ~Decode(h).ok

Results == out.ret[1]

VerifyEvents == SelectSeq(out.log, LAMBDA e : e.op = "verify")

NewEvents == SelectSeq(out.log, LAMBDA e : e.op = "new")

\* the verifier was constructed: the first primitive call is a successful new
Constructed == Len(out.log) >= 1 /\ out.log[1].op = "new" /\ out.log[1].ok

\* the construction was attempted and failed
ConstructionFailed == Len(out.log) >= 1 /\ out.log[1].op = "new" /\ ~out.log[1].ok

\* the ring verifier accepted this signature over the seal input of (entropy, attempt)
AcceptedVerify(entropy_hex, attempt, signature_hex) ==
    \E k \in 1..Len(out.log) :
        /\ out.log[k].op = "verify"
        /\ out.log[k].ok
        /\ out.log[k].c = Decode(signature_hex).bytes
        /\ out.log[k].a = SealInput(Decode(entropy_hex).bytes, attempt)

\* the other spelling of a hex string that carries no marker
Pfx(h) == IF StartsWith0x(h) THEN h ELSE WithPrefix(h)

-----------------------------------------------------------------------------
(* C1 *)

\* C1: in the ring-ticket batch_verify command, once the RingVerifier has been
\* constructed, a failing ticket never aborts the batch: the command still
\* prints one result per ticket, and a ticket whose signature hex is malformed
\* or whose attempt does not fit one byte gets an error entry.
C1_FailureNeverAborts ==
    (Done("batch_verify") /\ Constructed) =>
        /\ ~out.raised
        /\ Len(out.ret) = 1
        /\ Len(Results) = Len(args.items)
        /\ \A i \in 1..Len(args.items) :
              (Malformed(args.items[i].signature) \/ ~AttemptByte(args.items[i].attempt).ok)
                  => Results[i].tag = "error"

-----------------------------------------------------------------------------
(* C2 *)

\* C2: when construction of the RingVerifier fails, the batch_verify command
\* prints exactly one entry per ticket, every entry is an error whose reason
\* names the invalid commitment, none is ok, and no per-ticket work happens:
\* the failed construction is the only primitive call and no ticket's
\* signature or attempt is decoded (so none of them can raise).
C2_InvalidCommitmentFailsAll ==
    (Done("batch_verify") /\ ConstructionFailed) =>
        /\ ~out.raised
        /\ Len(out.ret) = 1
        /\ Len(Results) = Len(args.items)
        /\ \A i \in 1..Len(Results) :
              /\ Results[i].tag = "error"
              /\ Results[i].val = <<"Invalid commitment: ", "RingError">>
        /\ Len(out.log) = 1
        /\ VerifyEvents = <<>>

\* a failed construction with two tickets, one malformed and one that the
\* ring would otherwise have accepted
C2_Witness ==
    /\ Done("batch_verify")
    /\ ConstructionFailed
    /\ Len(args.items) = 2
    /\ Malformed(args.items[1].signature)
    /\ args.items[2] = Ticket(0, ToHex(RSigA))
    /\ AcceptA0 \in oracle.accept
    /\ Len(Results) = 2

-----------------------------------------------------------------------------
(* C3 *)

\* C3: across every entry point of the VRF helper, whenever a ticket ID is
\* reported as a success value, the ring verifier has accepted that same
\* signature over the transcript of the call's entropy and the item's attempt.
C3_IdOnlyAfterVerify ==
    pc = "done" =>
        /\ (cmd = "ticket_id" /\ ~out.raised) =>
              \E k \in 1..Len(out.log) : out.log[k].op = "verify" /\ out.log[k].ok
        /\ (cmd = "batch_ticket_ids" /\ ~out.raised) =>
              \A i \in 1..Len(Results) :
                  Results[i].tag = "ok" =>
                      \E k \in 1..Len(out.log) : out.log[k].op = "verify" /\ out.log[k].ok
        /\ (cmd = "verify_ring_signature" /\ ~out.raised /\ Results.valid) =>
              AcceptedVerify(args.entropy, args.attempt, args.signature)
        /\ (cmd = "batch_verify" /\ ~out.raised) =>
              \A i \in 1..Len(Results) :
                  Results[i].tag = "ok" =>
                      AcceptedVerify(args.entropy, args.items[i].attempt,
                                     args.items[i].signature)

-----------------------------------------------------------------------------
(* C4 *)

\* C4: both batch entry points (Ed25519 batch_verify and the ring-ticket
\* batch_verify command) return, for every input list, an output list of
\* exactly the input's length; the empty input yields the empty output.
C4_OrderAndCardinality ==
    (Done("ed_batch_verify") \/ Done("batch_verify")) =>
        /\ ~out.raised
        /\ Len(out.ret) = 1
        /\ Len(Results) = Len(args.items)

-----------------------------------------------------------------------------
(* C5 *)

\* the fields decode and have the lengths the primitive requires
EdWellFormed(p, m, s) ==
    /\ Decode(p).ok /\ Decode(m).ok /\ Decode(s).ok
    /\ Len(Decode(p).bytes) = KeyLen
    /\ Len(Decode(s).bytes) = SigLen

\* what verify_ed25519 must return for one item
EdExpected(p, m, s) ==
    /\ EdWellFormed(p, m, s)
    /\ <<Decode(p).bytes, Decode(m).bytes, Decode(s).bytes>> \in oracle.ed

\* C5: verify_ed25519 never raises; it returns False when a field is
\* unparseable hex, has the wrong byte length, or the primitive rejects the
\* signature, and True only when the primitive accepted it; in batch_verify
\* result i is that value for item i, whatever the other items are.
C5_EdFailuresAreFalse ==
    /\ Done("verify_ed25519") =>
          /\ ~out.raised
          /\ Len(out.ret) = 1
          /\ Results = EdExpected(args.public_key, args.message, args.signature)
          /\ Results =>
                /\ Len(out.log) = 2
                /\ out.log[2].op = "ed_verify"
                /\ out.log[2].ok
    /\ Done("ed_batch_verify") =>
          /\ ~out.raised
          /\ Len(out.ret) = 1
          /\ Len(Results) = Len(args.items)
          /\ \A i \in 1..Len(args.items) :
                Results[i] = EdExpected(args.items[i].public_key, args.items[i].message,
                                        args.items[i].signature)

\* a batch whose first item has an odd-length key and whose second verifies
C5_Witness ==
    /\ Done("ed_batch_verify")
    /\ Len(args.items) = 2
    /\ Malformed(args.items[1].public_key)
    /\ Results = <<FALSE, TRUE>>

-----------------------------------------------------------------------------
(* C6 *)

\* seq with element i replaced by v
Put(seq, i, v) == [seq EXCEPT ![i] = v]

\* C6: for every hex field of every entry point, the spelling with a leading
\* 0x decodes to the same bytes as the spelling without it, and the entry
\* point's whole outcome (value or exception, and the calls made to the
\* primitive) is the same with any one field respelled.
C6_PrefixTransparency ==
    /\ Done("verify_ed25519") =>
          LET a == args IN
          /\ verify_ed25519(oracle, Pfx(a.public_key), a.message, a.signature) = out
          /\ verify_ed25519(oracle, a.public_key, Pfx(a.message), a.signature) = out
          /\ verify_ed25519(oracle, a.public_key, a.message, Pfx(a.signature)) = out
          /\ \A h \in {a.public_key, a.message, a.signature} :
                FromHex(StripPrefix(Pfx(h))) = FromHex(StripPrefix(h))
    /\ Done("ed_batch_verify") =>
          \A i \in 1..Len(args.items) :
              LET v == args.items[i] IN
              /\ ed_batch_verify(oracle,
                     Put(args.items, i, [v EXCEPT !.public_key = Pfx(v.public_key)])) = out
              /\ ed_batch_verify(oracle,
                     Put(args.items, i, [v EXCEPT !.message = Pfx(v.message)])) = out
              /\ ed_batch_verify(oracle,
                     Put(args.items, i, [v EXCEPT !.signature = Pfx(v.signature)])) = out
    /\ Done("ticket_id") =>
          cmd_ticket_id(oracle, Pfx(args.signature)) = out
    /\ Done("batch_ticket_ids") =>
          \A i \in 1..Len(args.items) :
              cmd_batch_ticket_ids(oracle, Put(args.items, i, Pfx(args.items[i]))) = out
    /\ Done("verify_ring_signature") =>
          LET a == args IN
          /\ verify_ring_signature(oracle, Pfx(a.commitment), a.ring_size, a.entropy,
                                   a.attempt, a.signature) = out
          /\ verify_ring_signature(oracle, a.commitment, a.ring_size, Pfx(a.entropy),
                                   a.attempt, a.signature) = out
          /\ verify_ring_signature(oracle, a.commitment, a.ring_size, a.entropy,
                                   a.attempt, Pfx(a.signature)) = out
    /\ Done("batch_verify") =>
          LET a == args IN
          /\ cmd_batch_verify(oracle, Pfx(a.commitment), a.ring_size, a.entropy, a.items) = out
          /\ cmd_batch_verify(oracle, a.commitment, a.ring_size, Pfx(a.entropy), a.items) = out
          /\ \A i \in 1..Len(a.items) :
                cmd_batch_verify(oracle, a.commitment, a.ring_size, a.entropy,
                    Put(a.items, i, [a.items[i] EXCEPT !.signature = Pfx(a.items[i].signature)]))
                  = out

\* a batch given without markers on commitment and entropy in which the same
\* signature, once with and once without the marker, yields the same ticket ID
C6_Witness ==
    /\ Done("batch_verify")
    /\ ~StartsWith0x(args.commitment)
    /\ ~StartsWith0x(args.entropy)
    /\ ~out.raised
    /\ Len(args.items) = 2
    /\ args.items[1] = Ticket(0, ToHex(RSigA))
    /\ args.items[2] = Ticket(0, WithPrefix(ToHex(RSigA)))
    /\ Results[1].tag = "ok"
    /\ Results[2] = Results[1]

-----------------------------------------------------------------------------
(* C7 *)

AttemptSamples == {0, 1, 2, ByteRange - 1}

\* C7: every transcript handed to the ring verifier is the tag bytes
\* jam_ticket_seal, then the decoded entropy, then the attempt as one byte,
\* with empty auxiliary data; two attempts give transcripts that differ in
\* the last byte only; verify_ring_signature and the batch command build
\* the same bytes for the same (entropy, attempt).
C7_Transcript ==
    /\ Done("verify_ring_signature") =>
          \A k \in 1..Len(VerifyEvents) :
              /\ VerifyEvents[k].a = Tag \o Decode(args.entropy).bytes \o <<args.attempt>>
              /\ VerifyEvents[k].b = <<>>
    /\ Done("batch_verify") =>
          /\ Len(VerifyEvents) <= Len(args.items)
          /\ \A k \in 1..Len(VerifyEvents) :
                /\ VerifyEvents[k].a =
                       Tag \o Decode(args.entropy).bytes \o <<args.items[k].attempt>>
                /\ Len(VerifyEvents[k].a) = Len(Tag) + Len(Decode(args.entropy).bytes) + 1
                /\ VerifyEvents[k].b = <<>>
    /\ (Done("batch_verify") \/ Done("verify_ring_signature")) /\ Decode(args.entropy).ok =>
          LET e == Decode(args.entropy).bytes IN
          \A a1 \in AttemptSamples, a2 \in AttemptSamples :
              LET t1 == BatchTranscript(e, AttemptByte(a1).bytes)
                  t2 == BatchTranscript(e, AttemptByte(a2).bytes)
              IN  /\ Len(t1) = Len(t2)
                  /\ \A j \in 1..(Len(t1) - 1) : t1[j] = t2[j]
                  /\ t1[Len(t1)] = a1 /\ t2[Len(t2)] = a2
                  /\ SingleTranscript(e, AttemptByte(a1).bytes) = t1

\* a batch whose two tickets carry attempts 0 and 1 and are both accepted
C7_Witness ==
    /\ Done("batch_verify")
    /\ Len(VerifyEvents) = 2
    /\ args.items[1].attempt = 0
    /\ args.items[2].attempt = 1
    /\ VerifyEvents[1].ok /\ VerifyEvents[2].ok
    /\ VerifyEvents[1].a # VerifyEvents[2].a

-----------------------------------------------------------------------------
(* C8 *)

\* the value or exception of an outcome, without the call log
Visible(r) == <<r.raised, r.exc, r.ret>>

\* C8: the ticket ID depends on the first 32 bytes of the decoded signature
\* only: any signature with the same first 32 bytes gives the same outcome,
\* and a returned ID is the hex of the VRF output hash cut to 32 bytes.
C8_TicketIdPure ==
    /\ Done("ticket_id") /\ Decode(args.signature).ok =>
          LET b == Decode(args.signature).bytes IN
          /\ \A s2 \in RSigStrs :
                (Decode(s2).ok /\ Slice(Decode(s2).bytes, VrfOutLen) = Slice(b, VrfOutLen))
                    => Visible(cmd_ticket_id(oracle, s2)) = Visible(out)
          /\ ~out.raised =>
                /\ Len(Results) <= 2 * IdLen
                /\ Results = ToHex(SubSeq(VRFOutputHash(SubSeq(b, 1, VrfOutLen)), 1, IdLen))
    /\ Done("batch_ticket_ids") /\ ~out.raised =>
          \A i \in 1..Len(args.items), j \in 1..Len(args.items) :
              (/\ Decode(args.items[i]).ok /\ Decode(args.items[j]).ok
               /\ Slice(Decode(args.items[i]).bytes, VrfOutLen)
                    = Slice(Decode(args.items[j]).bytes, VrfOutLen))
                  => Results[i] = Results[j]

\* two signatures that agree on their first 32 bytes and differ after them
\* are given the same ticket ID
C8_Witness ==
    /\ Done("batch_ticket_ids")
    /\ ~out.raised
    /\ args.items = <<ToHex(RSigA), ToHex(RSigATail)>>
    /\ Results[1].tag = "ok"
    /\ Results[2] = Results[1]

-----------------------------------------------------------------------------
(* C9 *)

\* C9: in the batch_verify command the RingVerifier is constructed once, from
\* the batch's commitment and ring size, before any verify call, and every
\* verify call of the batch is made on that one instance.
C9_OneVerifier ==
    Done("batch_verify") =>
        /\ Len(NewEvents) <= 1
        /\ Len(out.log) >= 1 =>
              /\ Len(NewEvents) = 1
              /\ out.log[1].op = "new"
              /\ out.log[1].a = Decode(args.commitment).bytes
              /\ out.log[1].n = args.ring_size
        /\ \A k \in 1..Len(out.log) :
              out.log[k].op = "verify" =>
                  /\ k > 1
                  /\ out.log[1].ok
                  /\ out.log[k].n = 1

\* a batch of two tickets, both verified on the one instance
C9_Witness ==
    /\ Done("batch_verify")
    /\ Len(args.items) = 2
    /\ Len(VerifyEvents) = 2
    /\ Len(NewEvents) = 1

-----------------------------------------------------------------------------
(* C10 *)

\* C10: no failure escapes verify_ring_signature as an exception: for every
\* input it returns a tuple, (False, diagnostic) on any failure and
\* (True, ticket_id) only when the ring verifier accepted the signature.
C10_NoEscape ==
    Done("verify_ring_signature") =>
        /\ ~out.raised
        /\ Len(out.ret) = 1
        /\ Results.valid => AcceptedVerify(args.entropy, args.attempt, args.signature)

====
